---- MODULE Spec2Model ----
(***************************************************************************)
(* Model of pf_liquidity_risk/modeling/train.py: the per-trial survival    *)
(* and exit engine PFInvestmentModel.simulate_path and its driver           *)
(* run_simulation.                                                          *)
(*                                                                          *)
(* Numbers.  The program computes in floating point; the model computes    *)
(* with integers:                                                           *)
(*   - money is an integer amount; the configurations of Configs use       *)
(*     multiples of Unit, which keeps every interest split of a trial      *)
(*     exact (no division below leaves a remainder there);                 *)
(*   - rates, capitalized-interest ratios, cap_rate and LTV are in         *)
(*     percent (12 is 0.12, 100 is 1.0);                                    *)
(*   - the IRR, a fractional power, is kept as the expression              *)
(*     (num/den)^(e_num/e_den) - 1 in lowest terms.                        *)
(* np.random.triangular(left, mode, right) returns a value of              *)
(* [left, right] and raises ValueError when left > mode, mode > right or   *)
(* left = right; the model draws from the three points of the triple.      *)
(***************************************************************************)
EXTENDS Integers, Sequences, FiniteSets, TLC

VARIABLES
    cfg,                \* self.cfg: the PFConfig of the run
    iterations,         \* run_simulation's argument
    results,            \* the outcomes run_simulation has collected
    trial,              \* number of simulate_path calls started
    pc,                 \* "call" | "loop" | "done" | "error"
    equity,             \* simulate_path locals
    principal,
    sampled_stab_rev,
    sampled_post_rev,
    completion_month,
    m,
    phase,
    revenue,
    annual_rate,
    interest,
    net_cash_flow,
    ltv_limit,
    equity_prev,        \* history: equity at the end of the previous month
    principal_cap,      \* history: principal after line 105, before the sweep
    principal_prev,     \* history: principal at the end of the previous month
    flow_sum,           \* history: sum of revenue - fixed cost - interest so far
    twin                \* a second call on the same draws, initial_equity raised

vars == <<cfg, iterations, results, trial, pc, equity, principal,
          sampled_stab_rev, sampled_post_rev, completion_month, m, phase,
          revenue, annual_rate, interest, net_cash_flow, ltv_limit,
          equity_prev, principal_cap, principal_prev, flow_sum, twin>>

(***************************************************************************)
(* Bounds and the money grid                                               *)
(***************************************************************************)
MaxExit == 3

\* The largest number of iterations of a run.
MaxRuns == 2

\* Monthly rates of the grid are quarters and ratios halves: one month
\* divides by at most 8, so Unit keeps MaxExit + 1 months exact.
Unit == 8 * 8 * 8 * 8

U(n) == n * Unit

(***************************************************************************)
(* Arithmetic                                                              *)
(***************************************************************************)
Abs(x) == IF x < 0 THEN -x ELSE x

Max(a, b) == IF a >= b THEN a ELSE b

RECURSIVE GCD(_, _)
GCD(a, b) == IF b = 0 THEN a ELSE GCD(b, a % b)

\* (num/den)^(e_num/e_den) - 1, num >= 0, den > 0, in lowest terms.
PowMinusOne(num, den, e_num, e_den) ==
    LET g == GCD(num, den)
        h == GCD(e_num, e_den)
    IN  [num |-> num \div g, den |-> den \div g,
         e_num |-> e_num \div h, e_den |-> e_den \div h]

\* The float -1.0: 0^1 - 1.
MinusOne == [num |-> 0, den |-> 1, e_num |-> 1, e_den |-> 1]

(***************************************************************************)
(* np.random.triangular                                                    *)
(***************************************************************************)
TriangularOK(d) == d[1] <= d[2] /\ d[2] <= d[3] /\ d[1] < d[3]

Triangular(d) == {d[1], d[2], d[3]}

\* int(np.random.triangular(0, 2, 6)): a value of [0, 6) truncated.
CompletionDelays == 0 .. 5

(***************************************************************************)
(* PFInvestmentModel helpers                                               *)
(***************************************************************************)
\* Mutant: one rate distribution for every phase.
get_rate_params_one_phase(c, ph) == c.pre_completion_rate

get_rate_params(c, ph) ==
    CASE ph = "construction" -> c.pre_completion_rate
      [] ph = "stabilization" -> c.stabilization_rate
      [] ph = "exit" -> c.post_court_rate

get_capitalized_ratio(c, ph) ==
    CASE ph = "construction" -> c.capitalized_ratio_construction
      [] ph = "stabilization" -> c.capitalized_ratio_stabilization
      [] ph = "exit" -> c.capitalized_ratio_exit

\* Mutant: the checkpoint decides before the completion month does.
PhaseOfCheckpointFirst(c, mm, cm) ==
    IF mm >= c.court_opening_month THEN "exit"
    ELSE IF mm < cm THEN "construction"
    ELSE "stabilization"

\* Lines 85-93: the phase of month mm.
PhaseOf(c, mm, cm) ==
    IF mm < cm THEN "construction"
    ELSE IF mm < c.court_opening_month THEN "stabilization"
    ELSE "exit"

RevenueOf(ph, stab, post) ==
    CASE ph = "construction" -> 0
      [] ph = "stabilization" -> stab
      [] ph = "exit" -> post

\* Lines 97-98: interest = principal * (annual_rate / 12).
Interest(p, annual) == (p * annual) \div 1200

\* Mutant: the whole interest capitalized, whatever the ratio.
CapitalizedInterestInFull(i, cap_ratio) == i

\* Line 102.
CapitalizedInterest(i, cap_ratio) == (i * cap_ratio) \div 100

\* Mutant: the whole interest paid in cash, whatever the ratio.
PaidInterestInFull(i, cap_ratio) == i

\* Line 101.
PaidInterest(i, cap_ratio) == (i * (100 - cap_ratio)) \div 100

\* Line 108.
NetCashFlow(c, rev, paid) == rev - (c.monthly_fixed_cost + paid)

\* Mutant: the sweep without the clamp of lines 113-115.
CashSweepNoClamp(e, p, ncf) ==
    IF ncf > 0
    THEN [equity |-> e, principal |-> p - ncf]
    ELSE [equity |-> e + ncf, principal |-> p]

\* Mutant: the sweep surplus beyond full payoff is lost.
CashSweepNoCredit(e, p, ncf) ==
    IF ncf > 0
    THEN [equity |-> e, principal |-> Max(0, p - ncf)]
    ELSE [equity |-> e + ncf, principal |-> p]

\* Lines 111-118: the cash sweep; p is the principal after capitalization.
CashSweep(e, p, ncf) ==
    IF ncf > 0
    THEN IF p - ncf < 0
         THEN [equity |-> e + Abs(p - ncf), principal |-> 0]
         ELSE [equity |-> e, principal |-> p - ncf]
    ELSE [equity |-> e + ncf, principal |-> p]

\* Mutant: insolvency only below zero.
IsInsolventBelowZero(e) == e < 0

\* Mutant: insolvency only at exactly zero.
IsInsolventAtZero(e) == e = 0

\* Line 121.
IsInsolvent(e) == e <= 0

\* Lines 129 and 138: (revenue * 12) / cap_rate.
AssetValue(c, rev) == (rev * 12 * 100) \div c.cap_rate

\* Line 130.
MaxRefi(c, rev, ltv) == (AssetValue(c, rev) * ltv) \div 100

\* Mutant: the refinancing test against the whole asset value.
RefiFailsNoLtv(c, p, rev, ltv) == p > AssetValue(c, rev)

\* Line 132.
RefiFails(c, p, rev, ltv) == p > MaxRefi(c, rev, ltv)

\* Mutant: the sponsor's initial equity counted into the exit equity.
ExitEquityWithBuffer(c, p, rev) == AssetValue(c, rev) - p + c.initial_equity

\* Line 139.
ExitEquity(c, p, rev) == AssetValue(c, rev) - p

\* Mutant: the growth of the whole holding period, not annualized.
IrrNotAnnualized(c, exit_equity, mm) ==
    IF exit_equity > 0
    THEN PowMinusOne(exit_equity, c.initial_equity, 1, 1)
    ELSE MinusOne

\* Lines 141-144.
Irr(c, exit_equity, mm) ==
    IF exit_equity > 0
    THEN PowMinusOne(exit_equity, c.initial_equity, 12, mm)
    ELSE MinusOne

\* Lines 146-151.
ExitOutcome(c, p, rev, mm) ==
    [status |-> "exit", month |-> mm,
     final_equity |-> Max(0, ExitEquity(c, p, rev)),
     irr |-> Irr(c, ExitEquity(c, p, rev), mm)]

\* Mutant: months counted from 0.
DefaultOutcomeZeroBased(mm) == [status |-> "default", month |-> mm - 1]

DefaultOutcome(mm) == [status |-> "default", month |-> mm]

RefiFailOutcome(mm) == [status |-> "refi_fail", month |-> mm]

SurvivedOutcome == [status |-> "survived_no_exit"]

NoOutcome == [status |-> "none"]

(***************************************************************************)
(* One call of simulate_path as a record: the primary call is held in the  *)
(* variables, the twin call in the variable twin.                          *)
(***************************************************************************)
\* Mutant: the refinancing test ahead of the insolvency test.
ResolveRefiFirst(c, s, ltv) ==
    IF s.m = c.court_opening_month /\ ~TriangularOK(c.target_refi_ltv_dist)
    THEN [s EXCEPT !.pc = "error"]
    ELSE IF s.m = c.court_opening_month /\ c.cap_rate = 0
    THEN [s EXCEPT !.pc = "error", !.ltv_limit = ltv]
    ELSE IF s.m = c.court_opening_month /\ RefiFails(c, s.principal, s.revenue, ltv)
    THEN [s EXCEPT !.pc = "return", !.ltv_limit = ltv,
                   !.outcome = RefiFailOutcome(s.m)]
    ELSE LET s2 == IF s.m = c.court_opening_month
                   THEN [s EXCEPT !.ltv_limit = ltv] ELSE s
         IN  IF IsInsolvent(s2.equity)
             THEN [s2 EXCEPT !.pc = "return", !.outcome = DefaultOutcome(s2.m)]
             ELSE IF s2.m # c.exit_month THEN s2
             ELSE IF c.cap_rate = 0 THEN [s2 EXCEPT !.pc = "error"]
             ELSE [s2 EXCEPT !.pc = "return",
                             !.outcome = ExitOutcome(c, s2.principal, s2.revenue, s2.m)]

\* Lines 120-151: the checks at the end of month s.m, in the code's order.
Resolve(c, s, ltv) ==
    IF IsInsolvent(s.equity)
    THEN [s EXCEPT !.pc = "return", !.outcome = DefaultOutcome(s.m)]
    ELSE IF s.m = c.court_opening_month /\ ~TriangularOK(c.target_refi_ltv_dist)
    THEN [s EXCEPT !.pc = "error"]
    ELSE IF s.m = c.court_opening_month /\ c.cap_rate = 0
    THEN [s EXCEPT !.pc = "error", !.ltv_limit = ltv]
    ELSE IF s.m = c.court_opening_month /\ RefiFails(c, s.principal, s.revenue, ltv)
    THEN [s EXCEPT !.pc = "return", !.ltv_limit = ltv,
                   !.outcome = RefiFailOutcome(s.m)]
    ELSE LET s2 == IF s.m = c.court_opening_month
                   THEN [s EXCEPT !.ltv_limit = ltv] ELSE s
         IN  IF s2.m # c.exit_month THEN s2
             ELSE IF c.cap_rate = 0 THEN [s2 EXCEPT !.pc = "error"]
             ELSE [s2 EXCEPT !.pc = "return",
                             !.outcome = ExitOutcome(c, s2.principal, s2.revenue, s2.m)]

\* Mutant: range(1, exit_month), the exit month never reached.
LoopExhaustedEarly(c, mm) == mm >= c.exit_month - 1

\* Line 84: range(1, exit_month + 1) has no month after mm.
LoopExhausted(c, mm) == mm >= c.exit_month

\* Lines 84-153: the loop head and one iteration of the body.
Advance(c, s, cm, stab, post, annual, ltv) ==
    IF LoopExhausted(c, s.m)
    THEN [s EXCEPT !.pc = "return", !.outcome = SurvivedOutcome]
    ELSE
    LET mm == s.m + 1
        ph == PhaseOf(c, mm, cm)
        rev == RevenueOf(ph, stab, post)
        i == Interest(s.principal, annual)
        cap_ratio == get_capitalized_ratio(c, ph)
        pcap == s.principal + CapitalizedInterest(i, cap_ratio)
        ncf == NetCashFlow(c, rev, PaidInterest(i, cap_ratio))
        sw == CashSweep(s.equity, pcap, ncf)
    IN  IF ~TriangularOK(get_rate_params(c, ph))
        THEN [s EXCEPT !.pc = "error", !.m = mm, !.phase = ph, !.revenue = rev]
        ELSE Resolve(c, [s EXCEPT !.m = mm, !.phase = ph, !.revenue = rev,
                                  !.annual_rate = annual, !.interest = i,
                                  !.net_cash_flow = ncf, !.principal_cap = pcap,
                                  !.equity_prev = s.equity,
                                  !.principal_prev = s.principal,
                                  !.flow_sum = s.flow_sum
                                      + (rev - c.monthly_fixed_cost - i),
                                  !.equity = sw.equity,
                                  !.principal = sw.principal], ltv)

\* Lines 72-73 and the reset of the locals at the start of a call.
\* Mutant: a call goes on from the equity the previous call ended with.
FreshCarryOver(c, ok) ==
    [pc |-> IF ok THEN "loop" ELSE "error", m |-> 0,
     initial_equity |-> c.initial_equity,
     equity |-> IF trial = 0 THEN c.initial_equity ELSE equity,
     principal |-> c.senior_loan,
     phase |-> "none", revenue |-> 0, annual_rate |-> 0, interest |-> 0,
     net_cash_flow |-> 0, ltv_limit |-> 0,
     equity_prev |-> c.initial_equity, principal_cap |-> c.senior_loan,
     principal_prev |-> c.senior_loan, flow_sum |-> 0,
     outcome |-> NoOutcome]

Fresh(c, ok) ==
    [pc |-> IF ok THEN "loop" ELSE "error", m |-> 0,
     initial_equity |-> c.initial_equity,
     equity |-> c.initial_equity, principal |-> c.senior_loan,
     phase |-> "none", revenue |-> 0, annual_rate |-> 0, interest |-> 0,
     net_cash_flow |-> 0, ltv_limit |-> 0,
     equity_prev |-> c.initial_equity, principal_cap |-> c.senior_loan,
     principal_prev |-> c.senior_loan, flow_sum |-> 0,
     outcome |-> NoOutcome]

\* The primary call as a record.
Self ==
    [pc |-> pc, m |-> m, initial_equity |-> cfg.initial_equity,
     equity |-> equity, principal |-> principal,
     phase |-> phase, revenue |-> revenue, annual_rate |-> annual_rate,
     interest |-> interest, net_cash_flow |-> net_cash_flow,
     ltv_limit |-> ltv_limit, equity_prev |-> equity_prev,
     principal_cap |-> principal_cap, principal_prev |-> principal_prev,
     flow_sum |-> flow_sum, outcome |-> NoOutcome]

TwinCfg == [cfg EXCEPT !.initial_equity = twin.initial_equity]

TwinOff == [Fresh(cfg, TRUE) EXCEPT !.pc = "off"]

\* The primary call's variables after it has become s.
Becomes(s) ==
    /\ pc' = CASE s.pc = "loop" -> "loop"
               [] s.pc = "error" -> "error"
               [] s.pc = "return" -> IF trial < iterations THEN "call" ELSE "done"
    /\ results' = IF s.pc = "return" THEN Append(results, s.outcome) ELSE results
    /\ m' = s.m
    /\ equity' = s.equity
    /\ principal' = s.principal
    /\ phase' = s.phase
    /\ revenue' = s.revenue
    /\ annual_rate' = s.annual_rate
    /\ interest' = s.interest
    /\ net_cash_flow' = s.net_cash_flow
    /\ ltv_limit' = s.ltv_limit
    /\ equity_prev' = s.equity_prev
    /\ principal_cap' = s.principal_cap
    /\ principal_prev' = s.principal_prev
    /\ flow_sum' = s.flow_sum

(***************************************************************************)
(* Actions                                                                 *)
(***************************************************************************)
DrawsOK(c) ==
    TriangularOK(c.stabilization_revenue_dist) /\ TriangularOK(c.post_court_revenue_dist)

\* run_simulation calls simulate_path: lines 163 and 72-82.
Call ==
    /\ pc = "call"
    /\ trial' = trial + 1
    /\ \E stab \in (IF DrawsOK(cfg) THEN Triangular(cfg.stabilization_revenue_dist) ELSE {0}),
          post \in (IF DrawsOK(cfg) THEN Triangular(cfg.post_court_revenue_dist) ELSE {0}),
          delay \in (IF DrawsOK(cfg) THEN CompletionDelays ELSE {0}) :
          /\ sampled_stab_rev' = stab
          /\ sampled_post_rev' = post
          /\ completion_month' =
                 IF DrawsOK(cfg) THEN cfg.completion_target_month + delay ELSE 0
    /\ Becomes(Fresh(cfg, DrawsOK(cfg)))
    /\ twin' = IF twin.pc = "off" THEN twin ELSE Fresh(TwinCfg, DrawsOK(cfg))
    /\ UNCHANGED <<cfg, iterations>>

\* The month the running calls are about to execute.
NextMonth == IF pc = "loop" THEN m + 1 ELSE twin.m + 1

RateDraws ==
    LET d == get_rate_params(cfg, PhaseOf(cfg, NextMonth, completion_month))
    IN  IF TriangularOK(d) THEN Triangular(d) ELSE {0}

LtvDraws ==
    IF NextMonth = cfg.court_opening_month /\ TriangularOK(cfg.target_refi_ltv_dist)
    THEN Triangular(cfg.target_refi_ltv_dist) ELSE {0}

\* One pass of the for statement of line 84: a month, or the fall-through
\* to line 153.
Loop ==
    /\ pc = "loop" \/ twin.pc = "loop"
    /\ \E annual \in RateDraws, ltv \in LtvDraws :
          /\ IF pc = "loop"
             THEN Becomes(Advance(cfg, Self, completion_month, sampled_stab_rev,
                                  sampled_post_rev, annual, ltv))
             ELSE UNCHANGED <<pc, results, m, equity, principal, phase, revenue,
                              annual_rate, interest, net_cash_flow, ltv_limit,
                              equity_prev, principal_cap, principal_prev,
                              flow_sum>>
          /\ twin' = IF twin.pc = "loop"
                     THEN Advance(TwinCfg, twin, completion_month, sampled_stab_rev,
                                  sampled_post_rev, annual, ltv)
                     ELSE twin
    /\ UNCHANGED <<cfg, iterations, trial, sampled_stab_rev, sampled_post_rev,
                   completion_month>>

Next == Call \/ Loop

(***************************************************************************)
(* Configurations.  PFConfig is a plain dataclass: it accepts any values,  *)
(* and PFInvestmentModel.__init__ stores it unchecked.                     *)
(***************************************************************************)
Months == 0 .. MaxExit

\* Configurations every draw and division of a call accepts.
RunnableConfigs ==
    [initial_equity : {U(2), U(6)},
     senior_loan : {U(4), U(16)},
     monthly_fixed_cost : {U(2)},
     stabilization_revenue_dist : {<<0, U(2), U(8)>>},
     post_court_revenue_dist : {<<U(2), U(8), U(8)>>},
     cap_rate : {300, 600},
     completion_target_month : {1, 2},
     court_opening_month : {2, 3},
     exit_month : Months,
     pre_completion_rate : {<<300, 600, 600>>},
     stabilization_rate : {<<0, 300, 300>>},
     post_court_rate : {<<0, 300, 300>>},
     capitalized_ratio_construction : {100},
     capitalized_ratio_stabilization : {50},
     capitalized_ratio_exit : {0},
     target_refi_ltv_dist : {<<50, 75, 100>>}]

\* The runnable configurations the rejected ones are derived from.
BaseConfigs ==
    {c \in RunnableConfigs :
        c.initial_equity = U(6) /\ c.senior_loan = U(4) /\ c.cap_rate = 300}

\* Every triangular distribution a single point, nothing capitalized.
PointConfig(c) ==
    [c EXCEPT !.stabilization_revenue_dist = <<U(2), U(2), U(2)>>,
              !.post_court_revenue_dist = <<U(8), U(8), U(8)>>,
              !.pre_completion_rate = <<600, 600, 600>>,
              !.stabilization_rate = <<300, 300, 300>>,
              !.post_court_rate = <<300, 300, 300>>,
              !.target_refi_ltv_dist = <<75, 75, 75>>,
              !.capitalized_ratio_construction = 0,
              !.capitalized_ratio_stabilization = 0,
              !.capitalized_ratio_exit = 0]

\* Configurations some draw or division of a call raises on.
RejectedConfigs ==
    UNION {{[c EXCEPT !.cap_rate = 0],
            [c EXCEPT !.stabilization_revenue_dist = <<U(8), U(2), U(8)>>],
            [c EXCEPT !.post_court_revenue_dist = <<U(2), U(8), U(2)>>],
            [c EXCEPT !.pre_completion_rate = <<600, 300, 600>>],
            [c EXCEPT !.stabilization_rate = <<300, 300, 300>>],
            [c EXCEPT !.post_court_rate = <<300, 0, 300>>],
            [c EXCEPT !.target_refi_ltv_dist = <<100, 75, 50>>],
            PointConfig(c)} : c \in BaseConfigs}

Configs == RunnableConfigs \cup RejectedConfigs

\* The state before run_simulation's first call.
Start(c, n) ==
    /\ cfg = c
    /\ iterations = n
    /\ results = << >>
    /\ trial = 0
    /\ pc = "call"
    /\ equity = 0
    /\ principal = 0
    /\ sampled_stab_rev = 0
    /\ sampled_post_rev = 0
    /\ completion_month = 0
    /\ m = 0
    /\ phase = "none"
    /\ revenue = 0
    /\ annual_rate = 0
    /\ interest = 0
    /\ net_cash_flow = 0
    /\ ltv_limit = 0
    /\ equity_prev = 0
    /\ principal_cap = 0
    /\ principal_prev = 0
    /\ flow_sum = 0

Init ==
    \E c \in Configs :
        /\ Start(c, IF c \in RunnableConfigs THEN 1 ELSE 2)
        /\ twin = TwinOff

Spec == Init /\ [][Next]_vars

\* Two calls on the same draws: the twin starts from a larger initial_equity.
TwinEquities == {U(6), U(10)}

InitPair ==
    \E c \in Configs, e \in TwinEquities :
        /\ e > c.initial_equity
        /\ Start(c, 1)
        /\ twin = [Fresh([c EXCEPT !.initial_equity = e], TRUE) EXCEPT !.pc = "call"]

SpecPair == InitPair /\ [][Next]_vars

\* run_simulation(iterations): several calls on one model and one config.
InitRun ==
    \E c \in BaseConfigs, n \in 1 .. MaxRuns :
        /\ Start(c, n)
        /\ twin = TwinOff

SpecRun == InitRun /\ [][Next]_vars

\* The scenario of the specification's section 8: no revenue (every month is
\* a construction month), interest fully capitalized, exit_month 12, the
\* checkpoint not before the exit.  A rate fixed at 12 % is a triple the
\* sampler rejects, so the rate is drawn from 12 % to 13 %.  The amounts
\* are the scenario's own, not multiples of Unit: the capitalized interest is
\* rounded down to a whole unit of money, which touches the principal only
\* (paid interest is exactly 0 at ratio 100, so equity is exact).
ScenarioConfigs ==
    [initial_equity : {1000000},
     senior_loan : {10000000},
     monthly_fixed_cost : {50000},
     stabilization_revenue_dist : {<<0, 0, 1>>},
     post_court_revenue_dist : {<<0, 0, 1>>},
     cap_rate : {5},
     completion_target_month : {13},
     court_opening_month : {12, 13},
     exit_month : {12},
     pre_completion_rate : {<<12, 12, 13>>},
     stabilization_rate : {<<12, 12, 13>>},
     post_court_rate : {<<12, 12, 13>>},
     capitalized_ratio_construction : {100},
     capitalized_ratio_stabilization : {100},
     capitalized_ratio_exit : {100},
     target_refi_ltv_dist : {<<70, 80, 85>>}]

InitScenario ==
    \E c \in ScenarioConfigs :
        /\ Start(c, 1)
        /\ twin = TwinOff

SpecScenario == InitScenario /\ [][Next]_vars

(***************************************************************************)
(* Vocabulary of the claims                                                *)
(***************************************************************************)
Statuses == {"default", "refi_fail", "exit", "survived_no_exit"}

\* A call has returned and its locals are those of its last month.
Returned == pc \in {"call", "done"} /\ Len(results) > 0

Last == results[Len(results)]

ReturnedWith(st) == Returned /\ Last.status = st

\* A month of the current call has run to its end.
MonthDone == m > 0 /\ pc # "error"

OrderedTriple(d) == d[1] <= d[2] /\ d[2] <= d[3]

PointTriple(d) == d[1] = d[2] /\ d[2] = d[3]

Triples(c) ==
    {c.stabilization_revenue_dist, c.post_court_revenue_dist,
     c.pre_completion_rate, c.stabilization_rate, c.post_court_rate,
     c.target_refi_ltv_dist}

\* The configurations the specification wants rejected.
InvalidConfig(c) ==
    \/ \E d \in Triples(c) : ~OrderedTriple(d)
    \/ ~(c.completion_target_month < c.court_opening_month
         /\ c.court_opening_month < c.exit_month)
    \/ c.cap_rate = 0

Degenerate(c) ==
    /\ \A d \in Triples(c) : PointTriple(d)
    /\ c.capitalized_ratio_construction = 0
    /\ c.capitalized_ratio_stabilization = 0
    /\ c.capitalized_ratio_exit = 0

(***************************************************************************)
(* C1.  Every call of simulate_path ends by returning exactly one outcome  *)
(* whose status is one of the four: no call ends without a status (by an   *)
(* exception), and the outcomes collected are one per call.                *)
(***************************************************************************)
C1_OneOutcomePerCall ==
    /\ pc # "error"
    /\ Len(results) = IF pc = "loop" THEN trial - 1 ELSE trial
    /\ \A i \in 1 .. Len(results) : results[i].status \in Statuses

(***************************************************************************)
(* C2.  Principal is never negative: not after the capitalization of a     *)
(* month's interest and not after the cash sweep.                          *)
(***************************************************************************)
C2_PrincipalNonNegative == principal >= 0 /\ principal_cap >= 0

\* The sweep exceeded the whole principal and was clamped.
C2_Witness == MonthDone /\ net_cash_flow > principal_cap /\ principal = 0

C4_DefaultDominates ==
    /\ (m > 0 /\ equity <= 0) =>
           Returned /\ Last = [status |-> "default", month |-> m]
    /\ (MonthDone /\ equity > 0 /\ m = cfg.court_opening_month
          /\ m = cfg.exit_month
          /\ principal > (((revenue * 12 * 100) \div cfg.cap_rate) * ltv_limit) \div 100) =>
           Returned /\ Last = [status |-> "refi_fail", month |-> m]

\* A default at the checkpoint month, which is also the exit month, with a
\* principal no LTV of the distribution would have refinanced.
C4_Witness ==
    /\ ReturnedWith("default")
    /\ m = cfg.court_opening_month
    /\ m = cfg.exit_month
    /\ \A ltv \in Triangular(cfg.target_refi_ltv_dist) :
           principal > (((revenue * 12 * 100) \div cfg.cap_rate) * ltv) \div 100

(***************************************************************************)
(* C5.  Refinancing gate: a call that ends the checkpoint month with       *)
(* equity > 0 returns refi_fail for that month iff                         *)
(* principal > (12 * revenue / cap_rate) * ltv; otherwise it continues     *)
(* (or exits, when that month is the exit month); refi_fail is returned    *)
(* at no other month.                                                      *)
(***************************************************************************)
C5_RefiGate ==
    /\ ReturnedWith("refi_fail") =>
           Last.month = cfg.court_opening_month /\ m = cfg.court_opening_month
    /\ (MonthDone /\ m = cfg.court_opening_month /\ equity > 0) =>
           IF principal > (((revenue * 12 * 100) \div cfg.cap_rate) * ltv_limit) \div 100
           THEN Returned /\ Last = [status |-> "refi_fail", month |-> m]
           ELSE IF m = cfg.exit_month THEN ReturnedWith("exit") ELSE pc = "loop"

C5_Witness == ReturnedWith("refi_fail") /\ equity > 0 /\ revenue > 0

(***************************************************************************)
(* C6.  Exit record: an exit outcome has month = exit_month; with          *)
(* exit_equity = 12 * revenue / cap_rate - principal its IRR is            *)
(* (exit_equity / initial_equity)^(12 / exit_month) - 1 when               *)
(* exit_equity > 0 and -1.0 otherwise, and its final_equity is             *)
(* max(0, exit_equity), never negative.                                    *)
(***************************************************************************)
C6_ExitRecord ==
    ReturnedWith("exit") =>
        LET exit_equity == (revenue * 12 * 100) \div cfg.cap_rate - principal
        IN  /\ Last.month = cfg.exit_month
            /\ exit_equity > 0 =>
                   /\ Last.irr = PowMinusOne(exit_equity, cfg.initial_equity,
                                             12, cfg.exit_month)
                   /\ Last.final_equity = exit_equity
            /\ exit_equity <= 0 =>
                   /\ Last.irr = [num |-> 0, den |-> 1, e_num |-> 1, e_den |-> 1]
                   /\ Last.final_equity = 0
            /\ Last.final_equity >= 0

C6_Witness == ReturnedWith("exit") /\ Last.final_equity > 0 /\ Last.irr.e_num > 1

C8_DefaultMonotoneInEquity ==
    twin.outcome.status = "default" =>
        /\ ReturnedWith("default")
        /\ Last.month <= twin.outcome.month

\* Both default, the richer call strictly later.
C8_Witness ==
    /\ twin.outcome.status = "default"
    /\ ReturnedWith("default")
    /\ Last.month < twin.outcome.month

(***************************************************************************)
(* C9.  With every triangular distribution a single point and every       *)
(* capitalized-interest ratio zero, the calls of simulate_path return, and *)
(* any two of them return the same outcome.                                *)
(***************************************************************************)
C9_DegenerateDeterministic ==
    Degenerate(cfg) =>
        /\ pc # "error"
        /\ \A i, j \in 1 .. Len(results) : results[i] = results[j]

(***************************************************************************)
(* C10.  A configuration whose triples are not ordered, whose milestones   *)
(* are not strictly increasing or whose cap_rate is zero is rejected       *)
(* before the first trial: no month runs and no outcome is produced.       *)
(***************************************************************************)
C10_InvalidConfigRejected ==
    InvalidConfig(cfg) => m = 0 /\ Len(results) = 0

(***************************************************************************)
(* C11.  Phase of month m, with completion month c and checkpoint k:       *)
(* construction with zero revenue when m < c, stabilization with the       *)
(* stabilization revenue when c <= m < k, exit with the post-event revenue *)
(* whenever m >= k, also when c is not below k.                            *)
(***************************************************************************)
C11_PhaseByCheckpoint ==
    (m > 0 /\ phase # "none") =>
        /\ m < completion_month => phase = "construction" /\ revenue = 0
        /\ (completion_month <= m /\ m < cfg.court_opening_month) =>
               phase = "stabilization" /\ revenue = sampled_stab_rev
        /\ m >= cfg.court_opening_month =>
               phase = "exit" /\ revenue = sampled_post_rev

(***************************************************************************)
(* C11 as amended.  Construction with zero revenue when m < c, whatever    *)
(* the checkpoint; stabilization when c <= m < k; exit with the post-event *)
(* revenue when m >= k and m >= c.                                         *)
(***************************************************************************)
C11_PhaseByCompletionFirst ==
    (m > 0 /\ phase # "none") =>
        /\ m < completion_month => phase = "construction" /\ revenue = 0
        /\ (completion_month <= m /\ m < cfg.court_opening_month) =>
               phase = "stabilization" /\ revenue = sampled_stab_rev
        /\ (m >= cfg.court_opening_month /\ m >= completion_month) =>
               phase = "exit" /\ revenue = sampled_post_rev

\* A month at or after the checkpoint that is still a construction month.
C11_Witness ==
    /\ MonthDone
    /\ m >= cfg.court_opening_month
    /\ m < completion_month
    /\ phase = "construction"
    /\ revenue = 0

(***************************************************************************)
(* C12.  survived_no_exit is returned only when the loop ends without      *)
(* reaching exit_month: with exit_month >= 1 a call that neither defaults  *)
(* nor fails refinancing returns exit at month exit_month, and             *)
(* survived_no_exit is never returned.                                     *)
(***************************************************************************)
C12_SurvivedUnreachable ==
    /\ \A i \in 1 .. Len(results) :
           results[i].status = "survived_no_exit" => cfg.exit_month < 1
    /\ ReturnedWith("survived_no_exit") => m = 0
    /\ (MonthDone /\ m = cfg.exit_month) => Returned
    /\ (Returned /\ cfg.exit_month >= 1) =>
           \/ Last.status \in {"default", "refi_fail"}
           \/ Last.status = "exit" /\ Last.month = cfg.exit_month

\* A call that passed its checkpoint and left by the exit of the last month.
C12_Witness ==
    /\ ReturnedWith("exit")
    /\ cfg.court_opening_month < cfg.exit_month
    /\ m = cfg.exit_month

(***************************************************************************)
(* C13.  In a month with net_cash_flow > 0 the principal after             *)
(* capitalization is reduced by net_cash_flow and equity is unchanged,     *)
(* except that a reduction below zero leaves principal 0 and adds exactly  *)
(* the overshoot to equity; in a month with net_cash_flow <= 0 equity      *)
(* changes by exactly net_cash_flow and principal changes only by the      *)
(* capitalized interest.                                                   *)
(***************************************************************************)
C13_CashSweepFrame ==
    MonthDone =>
        LET capitalized == (interest * get_capitalized_ratio(cfg, phase)) \div 100
            swept == principal_prev + capitalized - net_cash_flow
        IN  /\ principal_cap = principal_prev + capitalized
            /\ (net_cash_flow > 0 /\ swept >= 0) =>
                   principal = swept /\ equity = equity_prev
            /\ (net_cash_flow > 0 /\ swept < 0) =>
                   principal = 0 /\ equity = equity_prev - swept
            /\ net_cash_flow <= 0 =>
                   /\ equity = equity_prev + net_cash_flow
                   /\ principal = principal_prev + capitalized

\* A month whose surplus pays the loan off and leaves an overshoot to equity.
C13_Witness ==
    /\ MonthDone
    /\ net_cash_flow > principal_cap
    /\ principal_prev > 0
    /\ principal = 0
    /\ equity = equity_prev + net_cash_flow - principal_cap
    /\ equity > equity_prev

(***************************************************************************)
(* C14.  A call executes at most exit_month monthly steps and then stops;  *)
(* every outcome with a month (default, refi_fail, exit) has               *)
(* 1 <= month <= exit_month, and only survived_no_exit has no month.  The   *)
(* month counter is the variant: a step of the loop either executes the    *)
(* next month, m + 1 <= exit_month, or ends the call in that month.        *)
(***************************************************************************)
C14_BoundedTermination ==
    /\ [](/\ m <= Max(0, cfg.exit_month)
          /\ pc = "loop" => m < cfg.exit_month \/ m = 0
          /\ \A i \in 1 .. Len(results) :
                 /\ results[i].status \in Statuses
                 /\ ("month" \in DOMAIN results[i]) <=>
                        results[i].status # "survived_no_exit"
                 /\ "month" \in DOMAIN results[i] =>
                        /\ 1 <= results[i].month
                        /\ results[i].month <= cfg.exit_month)
    /\ [][pc = "loop" =>
              \/ pc' = "loop" /\ m' = m + 1 /\ results' = results
              \/ pc' = "error" /\ m' = m + 1 /\ results' = results
              \/ /\ pc' \in {"call", "done"}
                 /\ Len(results') = Len(results) + 1
                 /\ m' = IF results'[Len(results')].status = "survived_no_exit"
                         THEN m ELSE results'[Len(results')].month]_vars

\* A call that ran every month of the longest horizon and returned in the last.
C14_Witness ==
    /\ Returned
    /\ cfg.exit_month = MaxExit
    /\ Last.status # "survived_no_exit"
    /\ Last.month = cfg.exit_month
    /\ m = cfg.exit_month

(***************************************************************************)
(* C15.  The stabilization revenue, the post-event revenue and the         *)
(* completion month are sampled once, before the first month, and no       *)
(* monthly step changes them; the interest rate of every month is a new    *)
(* draw from the distribution of that month's phase.                       *)
(***************************************************************************)
C15_DrawsFrozen ==
    [][/\ (pc = "call" /\ pc' = "loop") =>
              /\ m' = 0
              /\ sampled_stab_rev' \in Triangular(cfg.stabilization_revenue_dist)
              /\ sampled_post_rev' \in Triangular(cfg.post_court_revenue_dist)
              /\ completion_month' - cfg.completion_target_month \in 0 .. 5
       /\ pc = "loop" =>
              /\ sampled_stab_rev' = sampled_stab_rev
              /\ sampled_post_rev' = sampled_post_rev
              /\ completion_month' = completion_month
              /\ (m' = m + 1 /\ pc' # "error") =>
                     annual_rate' \in
                         Triangular(CASE phase' = "construction" ->
                                             cfg.pre_completion_rate
                                      [] phase' = "stabilization" ->
                                             cfg.stabilization_rate
                                      [] phase' = "exit" ->
                                             cfg.post_court_rate)]_vars

\* A second month, of another phase than the first, whose rate the first
\* month's distribution cannot give, on the revenue drawn before month 1.
C15_Witness ==
    /\ MonthDone
    /\ m >= 2
    /\ completion_month > 1
    /\ phase = "stabilization"
    /\ revenue = sampled_stab_rev
    /\ annual_rate \in Triangular(cfg.stabilization_rate)
    /\ annual_rate \notin Triangular(cfg.pre_completion_rate)

(***************************************************************************)
(* C16.  run_simulation(n) runs exactly n calls and collects exactly n     *)
(* outcomes, one per call in order; every call starts from                 *)
(* equity = initial_equity, principal = senior_loan and month 0 whatever   *)
(* the earlier calls did, and no step changes the configuration.           *)
(***************************************************************************)
C16_Orchestrator ==
    /\ [](/\ trial <= iterations
          /\ pc \in {"call", "done"} => Len(results) = trial
          /\ pc = "loop" => Len(results) = trial - 1
          /\ pc = "call" => trial < iterations
          /\ pc = "done" => trial = iterations /\ Len(results) = iterations)
    /\ [][/\ cfg' = cfg
          /\ iterations' = iterations
          /\ \A i \in 1 .. Len(results) : results'[i] = results[i]
          /\ pc = "call" =>
                 /\ trial' = trial + 1
                 /\ results' = results
                 /\ equity' = cfg.initial_equity
                 /\ principal' = cfg.senior_loan
                 /\ m' = 0
          /\ pc = "loop" =>
                 /\ trial' = trial
                 /\ Len(results') = IF pc' = "loop" THEN Len(results)
                                    ELSE Len(results) + 1]_vars

\* A finished run of several calls, the last of which started after a call
\* that had ended with another equity and principal than it began with.
C16_Witness ==
    /\ pc = "done"
    /\ iterations > 1
    /\ Len(results) = iterations
    /\ results[1] # results[2]
    /\ results[1].status = "default"
    /\ results[2].status = "exit"

(***************************************************************************)
(* C17.  Equity never influences the debt side.  Two calls on the same     *)
(* draws that differ only in initial_equity have the same principal,       *)
(* phase, revenue, interest and net cash flow in every month both run,     *)
(* and their equities keep the distance they started with; they meet the   *)
(* same refinancing test; at exit they have the same final_equity, which   *)
(* is the asset value less the principal and holds no equity buffer, and   *)
(* IRRs of the same exit equity over their own initial_equity.             *)
(***************************************************************************)
C17_EquityOffDebtSide ==
    LET exit_equity == (revenue * 12 * 100) \div cfg.cap_rate - principal
    IN  /\ (pc = "loop" /\ twin.pc = "loop") =>
               /\ twin.m = m
               /\ twin.principal = principal
               /\ twin.principal_cap = principal_cap
               /\ twin.phase = phase
               /\ twin.revenue = revenue
               /\ twin.interest = interest
               /\ twin.net_cash_flow = net_cash_flow
               /\ twin.equity - equity = twin.initial_equity - cfg.initial_equity
        /\ ReturnedWith("refi_fail") =>
               /\ twin.pc = "return"
               /\ twin.outcome = Last
               /\ twin.ltv_limit = ltv_limit
        /\ (twin.pc = "return" /\ twin.outcome.status = "refi_fail") =>
               /\ Returned
               /\ Last.status \in {"default", "refi_fail"}
               /\ Last.month <= twin.outcome.month
        /\ ReturnedWith("exit") =>
               /\ twin.pc = "return"
               /\ twin.outcome.status = "exit"
               /\ twin.outcome.month = Last.month
               /\ twin.principal = principal
               /\ twin.outcome.final_equity = Last.final_equity
               /\ Last.final_equity = Max(0, exit_equity)
               /\ Last.irr = IF exit_equity > 0
                             THEN PowMinusOne(exit_equity, cfg.initial_equity,
                                              12, m)
                             ELSE MinusOne
               /\ twin.outcome.irr = IF exit_equity > 0
                                     THEN PowMinusOne(exit_equity,
                                                      twin.initial_equity, 12, m)
                                     ELSE MinusOne

\* Both calls exit with a positive final_equity, on different equity buffers
\* and with different IRRs.
C17_Witness ==
    /\ ReturnedWith("exit")
    /\ twin.outcome.status = "exit"
    /\ Last.final_equity > 0
    /\ twin.outcome.final_equity = Last.final_equity
    /\ twin.equity > equity
    /\ twin.outcome.irr # Last.irr

(***************************************************************************)
(* C18.  In every month equity - principal changes by exactly              *)
(* revenue - monthly_fixed_cost - interest, the full interest whatever     *)
(* the capitalized ratio; so equity - principal is                         *)
(* initial_equity - senior_loan plus the sum of these monthly amounts.     *)
(***************************************************************************)
C18_NetWorthIdentity ==
    MonthDone =>
        /\ (equity - principal) - (equity_prev - principal_prev)
               = revenue - cfg.monthly_fixed_cost - interest
        /\ equity - principal
               = cfg.initial_equity - cfg.senior_loan + flow_sum

\* A month of partial capitalization after a month of full capitalization,
\* with interest in both.
C18_Witness ==
    /\ MonthDone
    /\ m >= 2
    /\ phase = "stabilization"
    /\ cfg.capitalized_ratio_stabilization \notin {0, 100}
    /\ interest > 0
    /\ principal_prev > cfg.senior_loan
    /\ flow_sum # revenue - cfg.monthly_fixed_cost - interest

====
